---- MODULE Spec2Model ----
(***************************************************************************)
(* PositiveEtalonModel (breads/jwst_tools/PositiveEtalonModel.py):         *)
(*                                                                         *)
(*     f( x:p ) = p_0 / ( 1.0 + p_1^2 * sin^2( pi p_2 x + p_3 ) )          *)
(*                                                                         *)
(* with its derivative to x, its partials to the parameters and the unit   *)
(* of each parameter.                                                      *)
(*                                                                         *)
(* Numbers.  The code computes in IEEE doubles.  A number of the model is  *)
(* either a special value (inf, -inf, nan) or a finite value               *)
(*                                                                         *)
(*     (n/d) * pi^pi * sqrt(2)^r2 * B^big * e^eps                          *)
(*                                                                         *)
(* with n/d a reduced fraction, pi the double math.pi, B a finite double   *)
(* so large that B*B overflows (1e200 is one) and                          *)
(* e = 6.123233995736766e-17 the cosine of the double math.pi/2: math.pi   *)
(* is not the number pi but 2e less, so the sine of k*math.pi is a         *)
(* multiple of e and not 0, and the cosine of (k+1/2)*math.pi likewise.    *)
(* The arithmetic is exact on the fraction, so rounding in the last place  *)
(* is not modelled; overflow to inf, inf*0 = nan, inf/inf = nan and the    *)
(* absorption of a term by one many orders larger are.  sin and cos are    *)
(* taken at multiples of math.pi/4.                                        *)
(***************************************************************************)
EXTENDS Integers, Sequences, FiniteSets, TLC

VARIABLES
    params,     \* the caller's parameter vector, indices 0..3
    xdata,      \* the caller's sample sequence
    parlist,    \* the caller's selection list, or None
    npbase,     \* self.npbase: number of parameters left after fixing
    npmax,      \* self.npmax: number of parameters of the unfixed model
    xUnit,      \* self.xUnit
    yUnit,      \* self.yUnit
    ret,        \* outcome of the last call made as a whole
    frames      \* one call frame per thread, for calls made step by step

vars == <<params, xdata, parlist, npbase, npmax, xUnit, yUnit, ret, frames>>

-----------------------------------------------------------------------------
(* Bounds of the model. *)

MaxLen == 2         \* longest sample sequence
MaxSel == 2         \* longest selection list
MaxFixed == 2       \* most parameters fixed at construction
MaxK == 5           \* baseParameterUnit is asked for indices -MaxK..MaxK

(* The number of parameters the constructor declares. *)
NParams == 4

-----------------------------------------------------------------------------
(* Doubles. *)

AbsInt(i) == IF i < 0 THEN -i ELSE i

Sgn(i) == IF i < 0 THEN -1 ELSE IF i = 0 THEN 0 ELSE 1

RECURSIVE GCD(_, _)
GCD(a, b) == IF b = 0 THEN a ELSE GCD(b, a % b)

NaN == [k |-> "nan", n |-> 0, d |-> 1, pi |-> 0, r2 |-> 0, big |-> 0, eps |-> 0]

Inf(s) == [k |-> "inf", n |-> s, d |-> 1, pi |-> 0, r2 |-> 0, big |-> 0, eps |-> 0]

Zero == [k |-> "fin", n |-> 0, d |-> 1, pi |-> 0, r2 |-> 0, big |-> 0, eps |-> 0]

(* The finite value (n/d) pi^pi sqrt(2)^r2 B^big e^eps in reduced form.    *)
(* B^2 and beyond overflows to an infinity (also when multiplied by a few  *)
(* factors e), B^-2 and below underflows to zero.                          *)
FinE(n, d, pi, r2, big, eps) ==
    IF n = 0 THEN Zero
    ELSE IF big > 1 THEN Inf(Sgn(n) * Sgn(d))
    ELSE IF big < -1 THEN Zero
    ELSE LET g == GCD(AbsInt(n), AbsInt(d))
             s == Sgn(d)
         IN  [k |-> "fin", n |-> (s * n) \div g, d |-> (s * d) \div g,
              pi |-> pi, r2 |-> r2, big |-> big, eps |-> eps]

Fin(n, d, pi, r2, big) == FinE(n, d, pi, r2, big, 0)

Num(i) == Fin(i, 1, 0, 0, 0)

Frac(n, d) == Fin(n, d, 0, 0, 0)

One == Num(1)

(* math.pi *)
Pi == Fin(1, 1, 1, 0, 0)

(* A finite double whose square overflows. *)
Big == Fin(1, 1, 0, 0, 1)

(* numpy.cos( math.pi / 2 ) = 6.123233995736766e-17, i times over. *)
Eps(i) == FinE(i, 1, 0, 0, 0, 1)

IsFinite(a) == a.k = "fin"

Neg(a) == [a EXCEPT !.n = -a.n]

AbsNum(a) == [a EXCEPT !.n = AbsInt(a.n)]

Mul(a, b) ==
    IF a.k = "nan" \/ b.k = "nan" THEN NaN
    ELSE IF a.k = "inf" \/ b.k = "inf"
         THEN IF a.n = 0 \/ b.n = 0 THEN NaN ELSE Inf(Sgn(a.n) * Sgn(b.n))
    ELSE LET r == a.r2 + b.r2
         IN  FinE(a.n * b.n * (IF r = 2 THEN 2 ELSE 1), a.d * b.d,
                  a.pi + b.pi, r % 2, a.big + b.big, a.eps + b.eps)

Div(a, b) ==
    IF a.k = "nan" \/ b.k = "nan" THEN NaN
    ELSE IF b.k = "inf" THEN IF a.k = "inf" THEN NaN ELSE Zero
    ELSE IF b.n = 0 THEN IF a.n = 0 THEN NaN ELSE Inf(Sgn(a.n))
    ELSE IF a.k = "inf" THEN Inf(Sgn(a.n) * Sgn(b.n))
    ELSE LET r == a.r2 - b.r2
         IN  FinE(a.n * b.d, a.d * b.n * (IF r = -1 THEN 2 ELSE 1),
                  a.pi - b.pi, r % 2, a.big - b.big, a.eps - b.eps)

(* Finite terms of one kind add exactly; a term absorbs one that is        *)
(* smaller by a factor B or by a factor e*e or less.  The code never adds  *)
(* finite terms of other kinds (a multiple of pi to a rational, or terms   *)
(* one factor e apart, where the sum would depend on the rounding), so     *)
(* those cases are left undefined.                                         *)
Add(a, b) ==
    IF a.k = "nan" \/ b.k = "nan" THEN NaN
    ELSE IF a.k = "inf" THEN IF b.k = "inf" /\ b.n # a.n THEN NaN ELSE a
    ELSE IF b.k = "inf" THEN b
    ELSE IF a.n = 0 THEN b
    ELSE IF b.n = 0 THEN a
    ELSE IF a.big > b.big THEN a
    ELSE IF b.big > a.big THEN b
    ELSE IF a.eps + 2 <= b.eps THEN a
    ELSE IF b.eps + 2 <= a.eps THEN b
    ELSE CASE a.pi = b.pi /\ a.r2 = b.r2 /\ a.eps = b.eps ->
              FinE(a.n * b.d + b.n * a.d, a.d * b.d, a.pi, a.r2, a.big, a.eps)

(* a <= b for rationals scaled by powers of B; false when either is nan. *)
Leq(a, b) ==
    IF a.k = "nan" \/ b.k = "nan" THEN FALSE
    ELSE IF a.k = "inf" THEN a.n < 0 \/ (b.k = "inf" /\ b.n > 0)
    ELSE IF b.k = "inf" THEN b.n > 0
    ELSE CASE a.pi = 0 /\ a.r2 = 0 /\ a.eps = 0
              /\ b.pi = 0 /\ b.r2 = 0 /\ b.eps = 0 ->
              IF Sgn(a.n) # Sgn(b.n) THEN Sgn(a.n) < Sgn(b.n)
              ELSE IF a.n = 0 THEN TRUE
              ELSE IF a.big # b.big
                   THEN IF a.n > 0 THEN a.big < b.big ELSE a.big > b.big
              ELSE a.n * b.d <= b.n * a.d

HalfRoot2 == Fin(1, 2, 0, 1, 0)

(* The angle a = (m/4) * math.pi, a multiple of math.pi/4: the integer m. *)
QuarterTurns(a) ==
    CASE a.pi = 1 /\ a.r2 = 0 /\ a.big = 0 /\ a.eps = 0 /\ (4 * a.n) % a.d = 0 ->
         (4 * a.n) \div a.d

(* (-1)^k *)
Alt(k) == IF k % 2 = 0 THEN 1 ELSE -1

(* The sine of the double (m/4) * math.pi.  math.pi is pi - 2e, so         *)
(* sin( k math.pi ) = sin( k pi - 2ke ) = -(-1)^k 2k e.                    *)
SinAt(m) ==
    CASE m % 4 = 0 -> Eps(-Alt(m \div 4) * 2 * (m \div 4))
      [] m % 4 = 2 -> Num(Alt((m - 2) \div 4))
      [] m % 8 \in {1, 3} -> HalfRoot2
      [] m % 8 \in {5, 7} -> Neg(HalfRoot2)

(* The cosine of the double (m/4) * math.pi:                               *)
(* cos( (k+1/2) math.pi ) = cos( (k+1/2) pi - (2k+1) e ) = (-1)^k (2k+1) e. *)
CosAt(m) ==
    CASE m % 4 = 0 -> Num(Alt(m \div 4))
      [] m % 4 = 2 -> Eps(Alt((m - 2) \div 4) * (2 * ((m - 2) \div 4) + 1))
      [] m % 8 \in {1, 7} -> HalfRoot2
      [] m % 8 \in {3, 5} -> Neg(HalfRoot2)

(* numpy.sin, numpy.cos *)
Sin(a) ==
    IF a.k # "fin" THEN NaN
    ELSE IF a.n = 0 THEN Zero
    ELSE SinAt(QuarterTurns(a))

Cos(a) ==
    IF a.k # "fin" THEN NaN
    ELSE IF a.n = 0 THEN One
    ELSE CosAt(QuarterTurns(a))

-----------------------------------------------------------------------------
(* The model function.  xv is one sample, p the parameter vector. *)

(* x = math.pi * xdata * params[2] + params[3] *)
Phase(xv, p) == Add(Mul(Mul(Pi, xv), p[2]), p[3])

(* ResultDenom with the sum turned into a difference. *)
ResultDenomMinus(xv, p) ==
    LET sx == Sin(Phase(xv, p))
    IN  Add(One, Neg(Mul(Mul(Mul(p[1], p[1]), sx), sx)))

(* ResultDenom with params[1] taken once instead of squared. *)
ResultDenomLinear(xv, p) ==
    LET sx == Sin(Phase(xv, p))
    IN  Add(One, Mul(Mul(p[1], sx), sx))

(* 1.0 + params[1] * params[1] * sx * sx *)
ResultDenom(xv, p) ==
    LET sx == Sin(Phase(xv, p))
    IN  Add(One, Mul(Mul(Mul(p[1], p[1]), sx), sx))

baseResultAt(xv, p) == Div(p[0], ResultDenom(xv, p))

baseResult(xd, p) == [i \in 1..Len(xd) |-> baseResultAt(xd[i], p)]

(* baseDerivativeAt with numpy.sin( x ) in place of numpy.cos( x ). *)
baseDerivativeAtSin(xv, p) ==
    LET x == Phase(xv, p)
        sx == Sin(x)
        dd0 == Add(One, Mul(Mul(Mul(p[1], p[1]), sx), sx))
        dd == Mul(dd0, dd0)
    IN  Div(Mul(Mul(Mul(Mul(Mul(Mul(Mul(Num(-2), Pi), p[0]), p[1]), p[1]),
                    p[2]), sx), sx), dd)

baseDerivativeAt(xv, p) ==
    LET x == Phase(xv, p)
        sx == Sin(x)
        dd0 == Add(One, Mul(Mul(Mul(p[1], p[1]), sx), sx))
        dd == Mul(dd0, dd0)
    IN  Div(Mul(Mul(Mul(Mul(Mul(Mul(Mul(Num(-2), Pi), p[0]), p[1]), p[1]),
                    p[2]), sx), Cos(x)), dd)

baseDerivative(xd, p) == [i \in 1..Len(xd) |-> baseDerivativeAt(xd[i], p)]

(* dd = 1.0 / ( 1 + params[1] * params[1] * s2 ) *)
PartialDD(xv, p) ==
    LET sx == Sin(Phase(xv, p))
        s2 == Mul(sx, sx)
    IN  Div(One, Add(One, Mul(Mul(p[1], p[1]), s2)))

(* PartialP3 with params[1] taken once instead of squared. *)
PartialP3Linear(xv, p) ==
    LET x == Phase(xv, p)
        sx == Sin(x)
        dd == PartialDD(xv, p)
        d2 == Mul(dd, dd)
    IN  Mul(Mul(Mul(Mul(Mul(Num(-2), p[0]), p[1]), sx), Cos(x)), d2)

(* PartialP3 with dd in place of its square d2. *)
PartialP3Unsquared(xv, p) ==
    LET x == Phase(xv, p)
        sx == Sin(x)
        dd == PartialDD(xv, p)
    IN  Mul(Mul(Mul(Mul(Mul(Mul(Num(-2), p[0]), p[1]), p[1]), sx), Cos(x)), dd)

(* p3 = - 2 * params[0] * params[1] * params[1] * sx * numpy.cos( x ) * d2 *)
PartialP3(xv, p) ==
    LET x == Phase(xv, p)
        sx == Sin(x)
        dd == PartialDD(xv, p)
        d2 == Mul(dd, dd)
    IN  Mul(Mul(Mul(Mul(Mul(Mul(Num(-2), p[0]), p[1]), p[1]), sx), Cos(x)), d2)

(* The keys of the dictionary parts. *)
PartKeys == 0..3

(* parts[kp]() at one sample. *)
PartAt(kp, xv, p) ==
    LET sx == Sin(Phase(xv, p))
        s2 == Mul(sx, sx)
        dd == PartialDD(xv, p)
        d2 == Mul(dd, dd)
    IN  CASE kp = 0 -> dd
          [] kp = 1 -> Mul(Mul(Mul(Mul(Num(-2), p[0]), p[1]), s2), d2)
          [] kp = 2 -> Mul(Mul(Pi, xv), PartialP3(xv, p))
          [] kp = 3 -> PartialP3(xv, p)

PartColumn(kp, xd, p) == [i \in 1..Len(xd) |-> PartAt(kp, xd[i], p)]

(* Python's None and a list, as values of one shape. *)
NoneList == [isNone |-> TRUE, items |-> <<>>]

List(L) == [isNone |-> FALSE, items |-> L]

(* range( n ) *)
Range(n) == [i \in 1..n |-> i - 1]

(* What numpy.ndarray leaves in an element it has not written. *)
Garbage == [k |-> "uninit", n |-> 0, d |-> 1, pi |-> 0, r2 |-> 0, big |-> 0,
            eps |-> 0]

(* numpy.ndarray( ( rows, np ) ): column k is cols[k]. *)
NewArray(rows, np) ==
    [rows |-> rows, cols |-> [k \in 0..(np - 1) |-> [i \in 1..rows |-> Garbage]]]

(* What ret holds in the places a call does not fill. *)
NoValue == <<>>

NoMatrix == [rows |-> 0, cols |-> <<>>]

(* FillFrom taking the part by the position k instead of the key kp. *)
RECURSIVE FillFromByPosition(_, _, _, _, _)
FillFromByPosition(partial, items, k, xd, p) ==
    IF k >= Len(items) THEN [status |-> "return", matrix |-> partial]
    ELSE LET kp == items[k + 1]
         IN  IF kp \notin PartKeys
                 THEN [status |-> "KeyError", matrix |-> NoMatrix]
             ELSE IF k \notin DOMAIN partial.cols
                 THEN [status |-> "IndexError", matrix |-> NoMatrix]
             ELSE FillFromByPosition(
                      [partial EXCEPT !.cols[k] = PartColumn(k, xd, p)],
                      items, k + 1, xd, p)

(* FillFrom with parts.get( kp, parts[0] ): a default for a missing key. *)
RECURSIVE FillFromDefault(_, _, _, _, _)
FillFromDefault(partial, items, k, xd, p) ==
    IF k >= Len(items) THEN [status |-> "return", matrix |-> partial]
    ELSE LET kp == IF items[k + 1] \in PartKeys THEN items[k + 1] ELSE 0
         IN  IF k \notin DOMAIN partial.cols
                 THEN [status |-> "IndexError", matrix |-> NoMatrix]
             ELSE FillFromDefault(
                      [partial EXCEPT !.cols[k] = PartColumn(kp, xd, p)],
                      items, k + 1, xd, p)

(* for k,kp in enumerate( parlist ) : partial[:,k] = parts[kp]()           *)
(* from position k on.  The right-hand side is evaluated first: a key that *)
(* parts lacks raises KeyError, then a column the array lacks IndexError.  *)
RECURSIVE FillFrom(_, _, _, _, _)
FillFrom(partial, items, k, xd, p) ==
    IF k >= Len(items) THEN [status |-> "return", matrix |-> partial]
    ELSE LET kp == items[k + 1]
         IN  IF kp \notin PartKeys
                 THEN [status |-> "KeyError", matrix |-> NoMatrix]
             ELSE IF k \notin DOMAIN partial.cols
                 THEN [status |-> "IndexError", matrix |-> NoMatrix]
             ELSE FillFrom([partial EXCEPT !.cols[k] = PartColumn(kp, xd, p)],
                           items, k + 1, xd, p)

(* basePartial on a model whose attributes are nb = npbase, nm = npmax. *)
basePartial(nb, nm, xd, p, pl) ==
    LET np == IF pl.isNone THEN nb ELSE Len(pl.items)
        partial == NewArray(Len(xd), np)
        items == IF pl.isNone THEN Range(nm) ELSE pl.items
    IN  FillFrom(partial, items, 0, xd, p)

-----------------------------------------------------------------------------
(* Units: a product of powers of the radian and of two base units. *)

Unit(r, a, b) == [rad |-> r, um |-> a, Jy |-> b]

Dimensionless == Unit(0, 0, 0)

Radian == Unit(1, 0, 0)

UnitDiv(u, v) == Unit(u.rad - v.rad, u.um - v.um, u.Jy - v.Jy)

(* baseParameterUnit without the case k == 1. *)
baseParameterUnitNoFinesse(k, xu, yu) ==
    IF k = 0 THEN yu
    ELSE IF k = 2 THEN UnitDiv(Radian, xu)
    ELSE IF k = 3 THEN Radian
    ELSE yu

baseParameterUnit(k, xu, yu) ==
    IF k = 0 THEN yu
    ELSE IF k = 1 THEN Dimensionless
    ELSE IF k = 2 THEN UnitDiv(Radian, xu)
    ELSE IF k = 3 THEN Radian
    ELSE yu

-----------------------------------------------------------------------------
(* Inputs. *)

ParamVec(a, b, c, e) == [i \in 0..3 |-> CASE i = 0 -> a [] i = 1 -> b
                                          [] i = 2 -> c [] i = 3 -> e]

(* param = [1.0, 1.0, 1.0, 0.0] *)
DefaultParams == ParamVec(One, One, One, Zero)

(* The values the parameters and the samples are drawn from.  p3 is a      *)
(* multiple of math.pi/4; the phase argument ranges from -math.pi to       *)
(* 5/4 math.pi.                                                            *)
P0Set == {Zero, One, Num(-2), Big}
P1Set == {Zero, One, Num(-3), Num(30), Big}
P2Set == {One, Num(-1)}
P3Set == {Zero, Fin(1, 4, 1, 0, 0)}
XSet  == {Zero, Frac(1, 4), Frac(1, 2), One}

ParamVecs == {ParamVec(a, b, c, e) : a \in P0Set, b \in P1Set, c \in P2Set, e \in P3Set}

(* The fewer parameter vectors and samples used where the selection list  *)
(* is what varies.                                                         *)
SelParamVecs == {ParamVec(Num(-2), Num(30), One, Fin(1, 4, 1, 0, 0))}

SelXSet == {Frac(1, 4), Frac(1, 2)}

SeqsUpTo(S, n) == UNION {[1..m -> S] : m \in 0..n}

(* The selection lists used where the parameters are what varies. *)
KeyLists == {NoneList, List(<<3, 0>>), List(<<1>>), List(<<2>>)}

(* Indices of selection lists: 0..3, and -1 and 4 as the bad ones. *)
SelIndices == -1..NParams

ParLists == {NoneList} \cup {List(L) : L \in SeqsUpTo(SelIndices, MaxSel)}

XUnits == {Dimensionless, Unit(0, 1, 0), Unit(0, -1, 0), Radian}
YUnits == {Dimensionless, Unit(0, 0, 1), Unit(0, 1, 0), Unit(1, -1, 0)}

Threads == {1, 2}

NoRet == [op |-> "none", arg |-> 0, status |-> "none",
          value |-> NoValue, matrix |-> NoMatrix, unit |-> Dimensionless]

(* A call frame: the line the call is at, its local variables, and what it  *)
(* returned or raised.  x, sx, s2, dd, d2 and p3 are arrays over the        *)
(* samples; plist is the local name parlist.                                *)
Idle == [pc |-> "idle", op |-> "none",
         x |-> <<>>, sx |-> <<>>, s2 |-> <<>>, dd |-> <<>>, d2 |-> <<>>, p3 |-> <<>>,
         np |-> 0, partial |-> NoMatrix, plist |-> NoneList, k |-> 0,
         status |-> "none", value |-> NoValue, matrix |-> NoMatrix]

(* The constructor: 4 parameters, of which the keyword fixed takes nfixed  *)
(* out of the base model; the units are the caller's.                      *)
Construct(nfixed, xu, yu) ==
    /\ npmax = NParams
    /\ npbase = NParams - nfixed
    /\ xUnit = xu
    /\ yUnit = yu

(* A model with no parameter fixed, any parameter vector, any samples. *)
Init ==
    /\ params \in ParamVecs
    /\ xdata \in SeqsUpTo(XSet, MaxLen)
    /\ parlist \in KeyLists
    /\ Construct(0, Dimensionless, Dimensionless)
    /\ ret = NoRet
    /\ frames = [t \in Threads |-> Idle]

(* Any selection list, on a model with up to MaxFixed parameters fixed. *)
InitSel ==
    /\ params \in SelParamVecs
    /\ xdata \in SeqsUpTo(SelXSet, MaxLen)
    /\ parlist \in ParLists
    /\ \E nfixed \in 0..MaxFixed : Construct(nfixed, Dimensionless, Dimensionless)
    /\ ret = NoRet
    /\ frames = [t \in Threads |-> Idle]

(* A model with any units, asked for the unit of a parameter. *)
InitUnit ==
    /\ params = DefaultParams
    /\ xdata = <<>>
    /\ parlist = NoneList
    /\ \E nfixed \in 0..MaxFixed, xu \in XUnits, yu \in YUnits :
           Construct(nfixed, xu, yu)
    /\ ret = NoRet
    /\ frames = [t \in Threads |-> Idle]

CallResult ==
    /\ ret' = [NoRet EXCEPT !.op = "baseResult", !.status = "return",
                            !.value = baseResult(xdata, params)]
    /\ UNCHANGED <<params, xdata, parlist, npbase, npmax, xUnit, yUnit, frames>>

CallDerivative ==
    /\ ret' = [NoRet EXCEPT !.op = "baseDerivative", !.status = "return",
                            !.value = baseDerivative(xdata, params)]
    /\ UNCHANGED <<params, xdata, parlist, npbase, npmax, xUnit, yUnit, frames>>

CallPartial ==
    /\ LET r == basePartial(npbase, npmax, xdata, params, parlist)
       IN  ret' = [NoRet EXCEPT !.op = "basePartial", !.status = r.status,
                                !.matrix = r.matrix]
    /\ UNCHANGED <<params, xdata, parlist, npbase, npmax, xUnit, yUnit, frames>>

CallParameterUnit(k) ==
    /\ ret' = [NoRet EXCEPT !.op = "baseParameterUnit", !.arg = k,
                            !.status = "return",
                            !.unit = baseParameterUnit(k, xUnit, yUnit)]
    /\ UNCHANGED <<params, xdata, parlist, npbase, npmax, xUnit, yUnit, frames>>

Next == CallResult \/ CallDerivative \/ CallPartial

Spec == Init /\ [][Next]_vars

SpecSel == InitSel /\ [][Next]_vars

NextUnit == \E k \in (-MaxK)..MaxK : CallParameterUnit(k)

SpecUnit == InitUnit /\ [][NextUnit]_vars

-----------------------------------------------------------------------------
(* The three operations line by line, one call frame per thread.  A step   *)
(* is one statement of the source; pc names the line to execute next.      *)

Samples == 1..Len(xdata)

(* The step of thread t that leaves its frame as f and touches nothing else. *)
Local(t, f) ==
    /\ frames' = [frames EXCEPT ![t] = f]
    /\ UNCHANGED <<params, xdata, parlist, npbase, npmax, xUnit, yUnit, ret>>

At(t, line) == frames[t].pc = line

(* A thread calls one of the operations on the shared arguments. *)
Begin(t, op) ==
    /\ At(t, "idle")
    /\ Local(t, [Idle EXCEPT !.op = op,
                             !.pc = CASE op = "baseResult" -> "L85"
                                      [] op = "baseDerivative" -> "L101"
                                      [] op = "basePartial" -> "L122"])

(* x = math.pi * xdata * params[2] + params[3]   (lines 85, 101, 125) *)
StepPhase(t) ==
    /\ frames[t].pc \in {"L85", "L101", "L125"}
    /\ Local(t, [frames[t] EXCEPT
                     !.x = [i \in Samples |-> Add(Mul(Mul(Pi, xdata[i]), params[2]),
                                                  params[3])],
                     !.pc = CASE @ = "L85" -> "L86" [] @ = "L101" -> "L102"
                              [] @ = "L125" -> "L126"])

(* sx = numpy.sin( x )   (lines 86, 102, 126) *)
StepSin(t) ==
    /\ frames[t].pc \in {"L86", "L102", "L126"}
    /\ Local(t, [frames[t] EXCEPT
                     !.sx = [i \in Samples |-> Sin(frames[t].x[i])],
                     !.pc = CASE @ = "L86" -> "L87" [] @ = "L102" -> "L103"
                              [] @ = "L126" -> "L127"])

(* return params[0] / ( 1.0 + params[1] * params[1] * sx * sx ) *)
StepResultReturn(t) ==
    /\ At(t, "L87")
    /\ LET sx == frames[t].sx
       IN  Local(t, [frames[t] EXCEPT
                         !.value = [i \in Samples |->
                             Div(params[0],
                                 Add(One, Mul(Mul(Mul(params[1], params[1]), sx[i]),
                                              sx[i])))],
                         !.status = "return",
                         !.pc = "done"])

(* dd = 1 + params[1] * params[1] * sx * sx *)
StepDerivativeDD(t) ==
    /\ At(t, "L103")
    /\ LET sx == frames[t].sx
       IN  Local(t, [frames[t] EXCEPT
                         !.dd = [i \in Samples |->
                             Add(One, Mul(Mul(Mul(params[1], params[1]), sx[i]), sx[i]))],
                         !.pc = "L104"])

(* dd *= dd : in place, on the array line 103 made *)
StepDerivativeSquare(t) ==
    /\ At(t, "L104")
    /\ Local(t, [frames[t] EXCEPT
                     !.dd = [i \in Samples |-> Mul(frames[t].dd[i], frames[t].dd[i])],
                     !.pc = "L105"])

(* return - 2 * math.pi * params[0] * params[1] * params[1] * params[2]    *)
(*        * sx * numpy.cos( x ) / dd                                       *)
StepDerivativeReturn(t) ==
    /\ At(t, "L105")
    /\ LET f == frames[t]
           c == Mul(Mul(Mul(Mul(Mul(Num(-2), Pi), params[0]), params[1]), params[1]),
                    params[2])
       IN  Local(t, [f EXCEPT
                         !.value = [i \in Samples |->
                             Div(Mul(Mul(c, f.sx[i]), Cos(f.x[i])), f.dd[i])],
                         !.status = "return",
                         !.pc = "done"])

(* np = self.npbase if parlist is None else len( parlist ) *)
StepPartialNp(t) ==
    /\ At(t, "L122")
    /\ Local(t, [frames[t] EXCEPT
                     !.plist = parlist,
                     !.np = IF parlist.isNone THEN npbase ELSE Len(parlist.items),
                     !.pc = "L123"])

(* partial = numpy.ndarray( ( Tools.length( xdata ), np ) ) *)
StepPartialAlloc(t) ==
    /\ At(t, "L123")
    /\ Local(t, [frames[t] EXCEPT !.partial = NewArray(Len(xdata), frames[t].np),
                                  !.pc = "L125"])

(* s2 = sx * sx *)
StepPartialS2(t) ==
    /\ At(t, "L127")
    /\ Local(t, [frames[t] EXCEPT
                     !.s2 = [i \in Samples |-> Mul(frames[t].sx[i], frames[t].sx[i])],
                     !.pc = "L128"])

(* dd = 1.0 / ( 1 + params[1] * params[1] * s2 ) *)
StepPartialDD(t) ==
    /\ At(t, "L128")
    /\ Local(t, [frames[t] EXCEPT
                     !.dd = [i \in Samples |->
                         Div(One, Add(One, Mul(Mul(params[1], params[1]),
                                               frames[t].s2[i])))],
                     !.pc = "L129"])

(* d2 = dd * dd *)
StepPartialD2(t) ==
    /\ At(t, "L129")
    /\ Local(t, [frames[t] EXCEPT
                     !.d2 = [i \in Samples |-> Mul(frames[t].dd[i], frames[t].dd[i])],
                     !.pc = "L130"])

(* p3 = - 2 * params[0] * params[1] * params[1] * sx * numpy.cos( x ) * d2 *)
StepPartialP3(t) ==
    /\ At(t, "L130")
    /\ LET f == frames[t]
           c == Mul(Mul(Mul(Num(-2), params[0]), params[1]), params[1])
       IN  Local(t, [f EXCEPT
                         !.p3 = [i \in Samples |->
                             Mul(Mul(Mul(c, f.sx[i]), Cos(f.x[i])), f.d2[i])],
                         !.pc = "L137"])

(* StepPartialRebind storing range( self.npmax ) in the caller's list. *)
StepPartialRebindShared(t) ==
    /\ At(t, "L137")
    /\ parlist' = IF frames[t].plist.isNone THEN List(Range(npmax)) ELSE parlist
    /\ frames' = [frames EXCEPT ![t] =
                      [@ EXCEPT !.plist = IF @.isNone THEN List(Range(npmax)) ELSE @,
                                !.k = 0,
                                !.pc = "L140"]]
    /\ UNCHANGED <<params, xdata, npbase, npmax, xUnit, yUnit, ret>>

(* parts = { ... } ; if parlist is None : parlist = range( self.npmax )    *)
(* The assignment binds the local name; the caller's list is not written.  *)
StepPartialRebind(t) ==
    /\ At(t, "L137")
    /\ Local(t, [frames[t] EXCEPT
                     !.plist = IF @.isNone THEN List(Range(npmax)) ELSE @,
                     !.k = 0,
                     !.pc = "L140"])

(* parts[kp]() : the closures read the locals and the arguments when called. *)
PartsCall(f, kp) ==
    CASE kp = 0 -> f.dd
      [] kp = 1 -> [i \in Samples |->
                       Mul(Mul(Mul(Mul(Num(-2), params[0]), params[1]), f.s2[i]),
                           f.d2[i])]
      [] kp = 2 -> [i \in Samples |-> Mul(Mul(Pi, xdata[i]), f.p3[i])]
      [] kp = 3 -> f.p3

(* for k,kp in enumerate( parlist ) : partial[:,k] = parts[kp]() *)
StepPartialLoop(t) ==
    /\ At(t, "L140")
    /\ LET f == frames[t]
       IN  IF f.k >= Len(f.plist.items)
               THEN Local(t, [f EXCEPT !.pc = "L143"])
           ELSE LET kp == f.plist.items[f.k + 1]
                IN  IF kp \notin PartKeys
                        THEN Local(t, [f EXCEPT !.status = "KeyError", !.pc = "done"])
                    ELSE IF f.k \notin DOMAIN f.partial.cols
                        THEN Local(t, [f EXCEPT !.status = "IndexError", !.pc = "done"])
                    ELSE Local(t, [f EXCEPT !.partial.cols[f.k] = PartsCall(f, kp),
                                            !.k = f.k + 1])

(* return partial *)
StepPartialReturn(t) ==
    /\ At(t, "L143")
    /\ Local(t, [frames[t] EXCEPT !.matrix = frames[t].partial,
                                  !.status = "return",
                                  !.pc = "done"])

(* The caller takes the outcome; the thread is free for another call. *)
Finish(t) ==
    /\ At(t, "done")
    /\ Local(t, Idle)

ConcParamVecs == {ParamVec(One, Num(30), One, Zero),
                  ParamVec(Num(-2), Big, Num(-1), Fin(1, 4, 1, 0, 0))}

ConcSamples == {<<>>, <<Frac(1, 4)>>, <<Zero, Frac(1, 2)>>}

ConcParLists == {NoneList, List(<<3, 0>>), List(<<1, 4>>)}

(* Two threads share one model, one parameter vector, one sample sequence  *)
(* and one selection list.                                                 *)
InitConc ==
    /\ params \in ConcParamVecs
    /\ xdata \in ConcSamples
    /\ parlist \in ConcParLists
    /\ \E nfixed \in 0..1 : Construct(nfixed, Dimensionless, Dimensionless)
    /\ ret = NoRet
    /\ frames = [t \in Threads |-> Idle]

NextConc ==
    \E t \in Threads :
        \/ \E op \in {"baseResult", "baseDerivative", "basePartial"} : Begin(t, op)
        \/ StepPhase(t)
        \/ StepSin(t)
        \/ StepResultReturn(t)
        \/ StepDerivativeDD(t)
        \/ StepDerivativeSquare(t)
        \/ StepDerivativeReturn(t)
        \/ StepPartialNp(t)
        \/ StepPartialAlloc(t)
        \/ StepPartialS2(t)
        \/ StepPartialDD(t)
        \/ StepPartialD2(t)
        \/ StepPartialP3(t)
        \/ StepPartialRebind(t)
        \/ StepPartialLoop(t)
        \/ StepPartialReturn(t)
        \/ Finish(t)

SpecConc == InitConc /\ [][NextConc]_vars

-----------------------------------------------------------------------------
(* Properties of the value, the derivative and the partials. *)

(* The parameter vector with p1 negated. *)
NegP1(p) == [p EXCEPT ![1] = Neg(p[1])]

NegColumn(col) == [i \in DOMAIN col |-> Neg(col[i])]

(* The parameter each column of the last basePartial call was asked for. *)
Requested == IF parlist.isNone THEN Range(npmax) ELSE parlist.items

(* No product of parameters overflows on the way to the result. *)
SquareFinite(p) == IsFinite(Mul(p[1], p[1]))

SlopeFinite(p) ==
    IsFinite(Mul(Mul(Mul(Mul(Mul(Num(-2), Pi), p[0]), p[1]), p[1]), p[2]))

(* C3 as claimed: for every finite parameter vector and every finite       *)
(* sample the denominator of baseResult is >= 1 and 0 <= |Value| <= |p0|.  *)
C3_AsClaimed ==
    ret.op = "baseResult" =>
        \A i \in 1..Len(xdata) :
            /\ Leq(One, ResultDenom(xdata[i], params))
            /\ Leq(Zero, AbsNum(ret.value[i]))
            /\ Leq(AbsNum(ret.value[i]), AbsNum(params[0]))

(* C3 amended: the same, for the parameter vectors whose p1*p1 does not    *)
(* overflow and the samples whose phase argument is finite.                *)
C3_DenomAtLeastOne ==
    ret.op = "baseResult" /\ SquareFinite(params) =>
        \A i \in 1..Len(xdata) :
            IsFinite(Phase(xdata[i], params)) =>
                /\ Leq(One, ResultDenom(xdata[i], params))
                /\ Leq(Zero, AbsNum(ret.value[i]))
                /\ Leq(AbsNum(ret.value[i]), AbsNum(params[0]))

(* A value strictly inside the bound: 1/901 from p = [1,30,1,0] at x = 1/2. *)
C3_Witness ==
    /\ ret.op = "baseResult"
    /\ params = ParamVec(One, Num(30), One, Zero)
    /\ \E i \in 1..Len(xdata) : xdata[i] = Frac(1, 2) /\ ret.value[i] = Frac(1, 901)

(* C4: baseResult is unchanged when p1 is negated. *)
C4_ValueEvenInP1 ==
    ret.op = "baseResult" => ret.value = baseResult(xdata, NegP1(params))

(* A value that depends on p1, from a negative p1. *)
C4_Witness ==
    /\ ret.op = "baseResult"
    /\ params[1] = Num(-3)
    /\ \E i \in 1..Len(xdata) : ret.value[i] # params[0]

(* C5 as claimed: negating p1 leaves the outputs of baseResult and         *)
(* baseDerivative and every column of basePartial unchanged.               *)
C5_AsClaimed ==
    /\ ret.op = "baseResult" => ret.value = baseResult(xdata, NegP1(params))
    /\ ret.op = "baseDerivative" => ret.value = baseDerivative(xdata, NegP1(params))
    /\ ret.op = "basePartial" =>
           ret.matrix = basePartial(npbase, npmax, xdata, NegP1(params), parlist).matrix

(* C5 amended: negating p1 leaves the outputs of baseResult and            *)
(* baseDerivative and the columns of basePartial for parameters 0, 2 and 3 *)
(* unchanged, and negates the column for parameter 1.                      *)
C5_SignOfP1 ==
    /\ ret.op = "baseResult" => ret.value = baseResult(xdata, NegP1(params))
    /\ ret.op = "baseDerivative" => ret.value = baseDerivative(xdata, NegP1(params))
    /\ ret.op = "basePartial" /\ ret.status = "return" =>
           LET other == basePartial(npbase, npmax, xdata, NegP1(params), parlist)
           IN  /\ other.status = "return"
               /\ DOMAIN other.matrix.cols = DOMAIN ret.matrix.cols
               /\ \A k \in DOMAIN ret.matrix.cols :
                      ret.matrix.cols[k] =
                          IF Requested[k + 1] = 1
                          THEN NegColumn(other.matrix.cols[k])
                          ELSE other.matrix.cols[k]

(* All four columns returned, the one for p1 not zero. *)
C5_Witness ==
    /\ ret.op = "basePartial"
    /\ ret.status = "return"
    /\ parlist.isNone
    /\ \E i \in 1..Len(xdata) : ret.matrix.cols[1][i].n # 0
                                 /\ ret.matrix.cols[3][i].n # 0

(* The phase argument is the double math.pi / 2. *)
AtHalfPi(x) == x = Fin(1, 2, 1, 0, 0)

-----------------------------------------------------------------------------
(* Properties of the selection list. *)

BadIndex(kp) == kp \notin {0, 1, 2, 3}

(* The partials in natural order: what basePartial returns without a       *)
(* selection list on a model with no parameter fixed.                      *)
Natural == basePartial(NParams, NParams, xdata, params, NoneList).matrix

(* C1: given a selection list L of indices from {0,1,2,3}, basePartial     *)
(* returns a matrix of N rows and len(L) columns whose column k is the     *)
(* natural-order partial for parameter L[k].                               *)
C1_ColumnsFollowList ==
    (/\ ret.op = "basePartial"
     /\ ~parlist.isNone
     /\ \A j \in 1..Len(parlist.items) : ~BadIndex(parlist.items[j])) =>
        /\ ret.status = "return"
        /\ ret.matrix.rows = Len(xdata)
        /\ DOMAIN ret.matrix.cols = 0..(Len(parlist.items) - 1)
        /\ \A k \in DOMAIN ret.matrix.cols :
               /\ Len(ret.matrix.cols[k]) = Len(xdata)
               /\ ret.matrix.cols[k] = Natural.cols[parlist.items[k + 1]]

(* The list [3,0] on two samples, the two columns being different. *)
C1_Witness ==
    /\ ret.op = "basePartial"
    /\ ret.status = "return"
    /\ parlist = List(<<3, 0>>)
    /\ Len(xdata) = 2
    /\ ret.matrix.cols[0] # ret.matrix.cols[1]
    /\ ret.matrix.cols[0] = Natural.cols[3]

(* C2: without a selection list basePartial returns, whatever parameters   *)
(* the model has fixed, an N x 4 matrix whose columns are the partials for *)
(* parameters 0,1,2,3 in natural order.                                    *)
C2_NaturalOrderByDefault ==
    ret.op = "basePartial" /\ parlist.isNone =>
        /\ ret.status = "return"
        /\ ret.matrix.rows = Len(xdata)
        /\ DOMAIN ret.matrix.cols = 0..3
        /\ \A k \in 0..3 : ret.matrix.cols[k] = PartColumn(k, xdata, params)

(* C7: a selection list with an index outside {0,1,2,3} makes basePartial  *)
(* fail: it returns no matrix, puts no default in place of the bad index,  *)
(* and leaves the parameter vector and the inputs as they were.            *)
C7_BadIndexFails ==
    [][(/\ ret'.op = "basePartial"
        /\ ~parlist.isNone
        /\ \E j \in 1..Len(parlist.items) : BadIndex(parlist.items[j])) =>
           /\ ret'.status = "KeyError"
           /\ ret'.matrix = NoMatrix
           /\ UNCHANGED <<params, xdata, parlist>>]_vars

(* A failed call whose list has a good index before the bad one. *)
C7_Witness ==
    /\ ret.op = "basePartial"
    /\ ret.status = "KeyError"
    /\ parlist = List(<<3, 4>>)
    /\ Len(xdata) > 0

-----------------------------------------------------------------------------
(* Properties of the unit lookup. *)

(* C8: baseParameterUnit(k) returns yUnit for k = 0, the dimensionless     *)
(* unit for k = 1, radian / xUnit for k = 2, radian for k = 3 and yUnit    *)
(* for every other k; it never fails and never changes the model.          *)
C8_ParameterUnits ==
    [][ret'.op = "baseParameterUnit" =>
           /\ ret'.status = "return"
           /\ ret'.unit =
                  CASE ret'.arg = 0 -> yUnit
                    [] ret'.arg = 1 -> [rad |-> 0, um |-> 0, Jy |-> 0]
                    [] ret'.arg = 2 -> [rad |-> 1 - xUnit.rad, um |-> -xUnit.um,
                                        Jy |-> -xUnit.Jy]
                    [] ret'.arg = 3 -> [rad |-> 1, um |-> 0, Jy |-> 0]
                    [] OTHER -> yUnit
           /\ UNCHANGED <<params, npbase, npmax, xUnit, yUnit>>]_vars

(* The finesse reported dimensionless on a model whose units are not. *)
C8_Witness ==
    /\ ret.op = "baseParameterUnit"
    /\ ret.arg = 1
    /\ ret.unit = Dimensionless
    /\ xUnit # Dimensionless
    /\ yUnit # Dimensionless

-----------------------------------------------------------------------------
(* Purity. *)

(* What the call of frame f gives when it runs alone on the arguments. *)
SameAsAlone(f) ==
    CASE f.op = "baseResult" ->
             f.status = "return" /\ f.value = baseResult(xdata, params)
      [] f.op = "baseDerivative" ->
             f.status = "return" /\ f.value = baseDerivative(xdata, params)
      [] f.op = "basePartial" ->
             LET alone == basePartial(npbase, npmax, xdata, params, parlist)
             IN  f.status = alone.status /\ f.matrix = alone.matrix

(* C6: no step of baseResult, baseDerivative or basePartial, however the   *)
(* calls of two threads interleave, changes the parameter vector, the      *)
(* samples, the selection list or the model, and every call ends with the  *)
(* result the same call gives alone.                                       *)
C6_Pure ==
    [][/\ UNCHANGED <<params, xdata, parlist, npbase, npmax, xUnit, yUnit>>
       /\ \A t \in Threads : frames'[t].pc = "done" => SameAsAlone(frames'[t])]_vars

(* A basePartial call without a list has returned while the other thread   *)
(* is in the middle of its own basePartial call.                           *)
C6_Witness ==
    /\ parlist.isNone
    /\ frames[1].pc = "done" /\ frames[1].op = "basePartial"
    /\ frames[1].status = "return" /\ Len(xdata) = 2
    /\ frames[2].pc = "L140" /\ frames[2].k = 2

====
